---- MODULE Spec2Model ----
(***************************************************************************)
(* Verification model of the libtock-rs asynchronous runtime substrate:   *)
(*   - the busy-flag transaction guard and upcall slot of the console and  *)
(*     I2C master drivers (src/src/console.rs, src/src/i2c_master.rs),     *)
(*   - the scoped capability buffer (src/platform/src/allow_ro.rs),        *)
(*   - the embassy time driver (src/src/alarm.rs).                         *)
(* The kernel (Command / Allow / Subscribe, the alarm capsule) and the     *)
(* embassy timer queue are the environment of this code.                   *)
(***************************************************************************)
EXTENDS Integers, Sequences, FiniteSets, TLC

\* ------------------------------------------------------------------ bounds
NumTasks == 2
MaxOps == 2

Tasks == 1..NumTasks
NoTask == 0

VARIABLES
    driver,     \* the driver whose operations this behaviour exercises: the two
                \* drivers share no state (separate STORAGE statics, allow slots
                \* and subscribe ids), so their interleavings add nothing
    \* console.rs / i2c_master.rs: the two STORAGE singletons, indexed by driver
    busy,       \* [Drivers -> BOOLEAN]           STORAGE.busy
    result,     \* [Drivers -> completion record]  STORAGE.result: NoResult is None,
                \*                                 id names the command it completes
    waker,      \* [Drivers -> Tasks \cup {0}]    STORAGE.waker (AtomicWaker)
    \* the cooperative tasks
    pc,         \* [Tasks -> kind of the operation the task is suspended in, or "idle"]
    ownOp,      \* [Tasks -> 0..MaxOps]           number of the operation in progress
    ret,        \* [task, what]: the caller and the outcome of the latest call
    nextOp,     \* number of operations that acquired a guard so far
    \* allow_ro.rs: the capability buffer owned by each task's calling scope
    buf,        \* [Tasks -> "none" | "ro" | "rw"]
    allowed,    \* [Tasks -> BOOLEAN]             AllowRoBuffer.allowed
    \* the kernel
    kgrant,     \* [Slots -> Tasks \cup {0}]      whose memory each allow slot exposes
    inflight,   \* set of commands accepted by the kernel and not yet completed
    \* the executor
    woken,      \* the suspended tasks whose waker was invoked and that were not
                \* polled since (the run queue)
    writing,    \* the tasks inside ConsoleAsync::write: suspended in its try_write
                \* or at its yield_now between two attempts
    \* the stateless library functions
    api,        \* the latest call of one of them: its name, input and output
    \* alarm.rs: the time driver DRIVER
    inited,         \* AsyncAlarmDriver::init has run
    overflows,      \* DRIVER.overflows (u32)
    overflow_next,  \* DRIVER.overflow_next
    queue,          \* DRIVER.queue: the expirations of the Deadline Queue's
                    \* entries, earliest first; each entry belongs to another task
    misordered,     \* history: some batch of wakes ran against expiration order
    \* the alarm hardware and the kernel's alarm capsule
    ticks,          \* the 32-bit hardware tick counter
    wraps,          \* history: how many times the counter has wrapped
    kalarm,         \* the one physical alarm: [armed, reference, dt]
    upq,            \* alarm upcalls scheduled by the kernel, not yet delivered:
                    \* the `now` argument of each, oldest first
    direct,         \* history: application code has called a function of the
                    \* exported Alarm itself
    listener,       \* who holds the alarm's upcall subscription: "driver"
                    \* (EmbassyListener), "app" (a listener of the application),
                    \* "sleep" (sleep_for's cell, the process blocked in its
                    \* yield_wait), "called" (that cell's upcall is due) or "none"
    cs              \* the activations inside the time driver's critical sections:
                    \* where schedule_wake (sw) and the upcall handler (up) stand,
                    \* their locals now and next, and the number of live
                    \* borrow_mut() of DRIVER.queue

guardVars == <<driver, busy, result, waker, pc, ownOp, ret, nextOp, buf, allowed, kgrant, inflight,
               woken, writing>>
apiVars == <<api>>
alarmVars == <<inited, overflows, overflow_next, queue, misordered, ticks, wraps, kalarm, upq,
               direct, listener, cs>>
vars == <<driver, busy, result, waker, pc, ownOp, ret, nextOp, buf, allowed, kgrant, inflight,
          woken, writing, api, inited, overflows, overflow_next, queue, misordered, ticks, wraps, kalarm, upq,
          direct, listener, cs>>
guardVarsButRet == <<driver, busy, result, waker, pc, ownOp, nextOp, buf,
                    allowed, kgrant, inflight, woken, writing>>

\* --------------------------------------------------------------- constants
Drivers == {"console", "i2c"}
ConsoleOps == {"console_write", "console_read"}
I2cOps == {"i2c_read", "i2c_write", "i2c_write_read"}
DriverOf(op) == IF op \in ConsoleOps THEN "console" ELSE "i2c"
Slots == {"console_ro", "console_rw", "i2c_ro", "i2c_rw"}
SyscallResults == {"ok", "fail"}

\* The allow slot a console buffer of the given kind is bound to.
BufferSlot(kind) == IF kind = "ro" THEN "console_ro" ELSE "console_rw"

\* The allow slots whose handles an I2C operation's share scope owns.
ScopeSlots(op) ==
    CASE op = "i2c_read" -> {"i2c_rw"}
      [] op = "i2c_write" -> {"i2c_ro"}
      [] op = "i2c_write_read" -> {"i2c_ro", "i2c_rw"}
      [] OTHER -> {}

\* STORAGE.result holding None.
NoResult == [id |-> 0, st |-> "none"]

GuardInit ==
    /\ driver \in Drivers
    /\ busy = [d \in Drivers |-> FALSE]
    /\ result = [d \in Drivers |-> NoResult]
    /\ waker = [d \in Drivers |-> NoTask]
    /\ pc = [t \in Tasks |-> "idle"]
    /\ ownOp = [t \in Tasks |-> 0]
    /\ ret = [task |-> NoTask, what |-> "none"]
    /\ nextOp = 0
    /\ buf = [t \in Tasks |-> "none"]
    /\ allowed = [t \in Tasks |-> FALSE]
    /\ kgrant = [s \in Slots |-> NoTask]
    /\ inflight = {}
    /\ woken = {}
    /\ writing = {}

\* ------------------------------------------------- scoped capability buffer
\* AllowRoBuffer::allow: result seen by the caller. The Allow syscall (result ar)
\* is issued only when the flag is clear.
AllowResult(t, ar) == IF ~allowed[t] THEN ar ELSE "ok"

\* AllowRoBuffer::allow: the flag is set before the syscall and stays set
\* whatever the syscall returns.
AllowFlag(t) == TRUE

\* Kernel side of AllowRoBuffer::allow: a successful Allow replaces the slot's grant.
KgrantAfterAllow(t, slot, ar) ==
    IF ~allowed[t] /\ ar = "ok" THEN [kgrant EXCEPT ![slot] = t] ELSE kgrant

\* AllowRoBuffer::unallow: the flag afterwards.
UnallowFlag(t) == FALSE

\* An unallow that issues Unallow whatever the flag.
UnallowAlwaysIssued(t, slot) == [kgrant EXCEPT ![slot] = NoTask]
\* AllowRoBuffer::unallow: Unallow is issued only when the flag is set; the
\* kernel then holds no grant for the driver/slot pair, whoever's it was.
KgrantAfterUnallow(t, slot) ==
    IF allowed[t] THEN [kgrant EXCEPT ![slot] = NoTask] ELSE kgrant

\* Share handles whose Drop issues no Unallow.
KgrantKeptAtScopeExit(op) == kgrant
\* Drop for AllowRo / AllowRw share handles: Unallow for every slot of the scope.
KgrantAfterScopeExit(op) ==
    [s \in Slots |-> IF s \in ScopeSlots(op) THEN NoTask ELSE kgrant[s]]

\* from_array / into_allow_ro_buffer: a fresh buffer in the caller's scope.
NewBuffer(t, kind) ==
    /\ driver = "console" /\ t \notin writing
    /\ pc[t] = "idle" /\ buf[t] = "none"
    /\ buf' = [buf EXCEPT ![t] = kind]
    /\ allowed' = [allowed EXCEPT ![t] = FALSE]
    /\ UNCHANGED <<apiVars, alarmVars, woken, writing, driver, busy, result, waker, pc, ownOp, ret, nextOp, kgrant,
                   inflight>>

\* AllowRoBuffer::allow called directly by the owner.
BufferAllow(t) ==
    /\ driver = "console" /\ t \notin writing
    /\ pc[t] = "idle" /\ buf[t] # "none"
    /\ \E ar \in SyscallResults :
          /\ kgrant' = KgrantAfterAllow(t, BufferSlot(buf[t]), ar)
          /\ allowed' = [allowed EXCEPT ![t] = AllowFlag(t)]
    /\ UNCHANGED <<apiVars, alarmVars, woken, writing, driver, busy, result, waker, pc, ownOp, ret, nextOp, buf,
                   inflight>>

\* AllowRoBuffer::unallow called directly by the owner.
BufferUnallow(t) ==
    /\ driver = "console" /\ t \notin writing
    /\ pc[t] = "idle" /\ buf[t] # "none"
    /\ kgrant' = KgrantAfterUnallow(t, BufferSlot(buf[t]))
    /\ allowed' = [allowed EXCEPT ![t] = UnallowFlag(t)]
    /\ UNCHANGED <<apiVars, alarmVars, woken, writing, driver, busy, result, waker, pc, ownOp, ret, nextOp, buf,
                   inflight>>

\* A get_mut_buffer that hands out the bytes without revoking.
GetMutKeepsGrant(t, slot) == kgrant
\* AllowRoBuffer::get_mut_buffer: Unallow is issued when the flag is set, before
\* the reference is made.
KgrantAfterGetMut(t, slot) ==
    IF allowed[t] THEN [kgrant EXCEPT ![slot] = NoTask] ELSE kgrant

\* AllowRoBuffer::get_mut_buffer: revoke, then hand out the bytes.
GetMutBuffer(t) ==
    /\ driver = "console" /\ t \notin writing
    /\ pc[t] = "idle" /\ buf[t] # "none"
    /\ kgrant' = KgrantAfterGetMut(t, BufferSlot(buf[t]))
    /\ allowed' = [allowed EXCEPT ![t] = FALSE]
    /\ UNCHANGED <<apiVars, alarmVars, woken, writing, driver, busy, result, waker, pc, ownOp, ret, nextOp, buf,
                   inflight>>

\* Drop for AllowRoBuffer: the owning scope ends.
DropBuffer(t) ==
    /\ driver = "console" /\ t \notin writing
    /\ pc[t] = "idle" /\ buf[t] # "none"
    /\ kgrant' = KgrantAfterUnallow(t, BufferSlot(buf[t]))
    /\ allowed' = [allowed EXCEPT ![t] = UnallowFlag(t)]
    /\ buf' = [buf EXCEPT ![t] = "none"]
    /\ UNCHANGED <<apiVars, alarmVars, woken, writing, driver, busy, result, waker, pc, ownOp, ret, nextOp, inflight>>

\* --------------------------------------------- transaction guard, upcall slot
\* A guard that never reports the flag as taken.
GuardTakenNever(d) == FALSE
\* busy.fetch_or(true): the value the flag had.
GuardTaken(d) == busy[d]

\* What a Ready poll returns to the caller of operation id.
Outcome(id, r) ==
    IF r.id # id THEN "stale" ELSE IF r.st = "ok" THEN "ok" ELSE "cberr"

\* The completion stored in the slot is Err(ErrorCode::Busy): the READ upcall
\* turns the kernel's status into the error code of that number.
CompletionIsBusy(r) == r.st = "busy"

\* busy.fetch_or(true): the flag afterwards.
Acquired(d) == [busy EXCEPT ![d] = TRUE]

\* An operation that returns without the store.
BusyLeftSet(d) == Acquired(d)
\* busy.store(false) on the way out of an operation that acquired the guard.
BusyAfterReturn(d) == [Acquired(d) EXCEPT ![d] = FALSE]

\* ConsoleAsync::try_write / try_read up to their first suspension or return.
\* ar and cr are the results of the Allow and the Command syscall.
ConsoleBegin(t, op, ar, cr) ==
    LET id == nextOp + 1
        started == AllowResult(t, ar) = "ok" /\ cr = "ok"
        ready == started /\ result["console"] # NoResult
    IN /\ nextOp' = id
       /\ allowed' = [allowed EXCEPT ![t] = AllowFlag(t)]
       /\ kgrant' = KgrantAfterAllow(t, BufferSlot(buf[t]), ar)
       \* Result::and evaluates its argument first: the Command is issued
       \* whether or not the Allow succeeded.
       /\ inflight' = IF cr = "ok" THEN inflight \cup {[op |-> op, id |-> id]}
                      ELSE inflight
       /\ waker' = IF started THEN [waker EXCEPT !["console"] = t] ELSE waker
       /\ result' = IF ready THEN [result EXCEPT !["console"] = NoResult] ELSE result
       /\ busy' = IF started /\ ~ready THEN Acquired("console")
                  ELSE BusyAfterReturn("console")
       /\ pc' = IF started /\ ~ready THEN [pc EXCEPT ![t] = op] ELSE pc
       /\ ownOp' = IF started /\ ~ready THEN [ownOp EXCEPT ![t] = id] ELSE ownOp
       /\ ret' = [task |-> t,
                  what |-> IF ~started THEN "err"
                           ELSE IF ready THEN Outcome(id, result["console"])
                           ELSE "pending"]
       /\ UNCHANGED <<apiVars, alarmVars, woken, driver, buf>>

\* The early return of every operation that finds the guard taken.
ReturnBusy(t) ==
    /\ ret' = [task |-> t, what |-> "busy"]
    /\ UNCHANGED <<apiVars, alarmVars, woken, driver, busy, result, waker, pc, ownOp, nextOp, buf,
                   allowed, kgrant, inflight>>

ConsoleTryWrite(t) ==
    /\ driver = "console" /\ pc[t] = "idle" /\ buf[t] = "ro" /\ t \notin writing
    /\ writing' = writing
    /\ IF GuardTaken("console") THEN ReturnBusy(t)
       ELSE /\ nextOp < MaxOps
            /\ \E ar, cr \in SyscallResults : ConsoleBegin(t, "console_write", ar, cr)

\* ConsoleAsync::write, from its call or from the yield_now after a Busy, up
\* to the next suspension or its return: one try_write; Err(Busy), whether from
\* the guard, (isBusy) as the error code of the failed Allow or Command, or as
\* the completion taken from the slot, leads to yield_now, everything else is
\* returned.
ConsoleWrite(t) ==
    /\ driver = "console" /\ pc[t] = "idle" /\ buf[t] = "ro"
    /\ IF GuardTaken("console")
       THEN /\ ReturnBusy(t)
            /\ writing' = writing \cup {t}
       ELSE /\ nextOp < MaxOps
            /\ \E ar, cr \in SyscallResults : \E isBusy \in BOOLEAN :
                  /\ ConsoleBegin(t, "console_write", ar, cr)
                  /\ writing' = IF \/ pc'[t] # "idle"
                                   \/ ret'.what = "err" /\ isBusy
                                   \/ /\ ret'.what \notin {"err", "pending"}
                                      /\ CompletionIsBusy(result["console"])
                                THEN writing \cup {t}
                                ELSE writing \ {t}

ConsoleTryRead(t) ==
    /\ driver = "console" /\ pc[t] = "idle" /\ buf[t] = "rw"
    /\ writing' = writing
    /\ IF GuardTaken("console") THEN ReturnBusy(t)
       ELSE /\ nextOp < MaxOps
            /\ \E ar, cr \in SyscallResults : ConsoleBegin(t, "console_read", ar, cr)

\* AsyncI2cMaster::read / write / write_read up to their first suspension or
\* return. ar1, ar2 are the results of the Allow syscalls (write_read issues
\* two), cr of the Command; `?` leaves the scope at the first failure.
I2cBegin(t, op, ar1, ar2, cr) ==
    LET id == nextOp + 1
        allow1 == ar1 = "ok"
        allow2 == allow1 /\ (op = "i2c_write_read" => ar2 = "ok")
        started == allow2 /\ cr = "ok"
        ready == started /\ result["i2c"] # NoResult
        first == IF op = "i2c_read" THEN "i2c_rw" ELSE "i2c_ro"
        granted == [s \in Slots |->
                      IF s = first /\ allow1 THEN t
                      ELSE IF s = "i2c_rw" /\ op = "i2c_write_read" /\ allow2 THEN t
                      ELSE kgrant[s]]
    IN /\ nextOp' = id
       /\ inflight' = IF started THEN inflight \cup {[op |-> op, id |-> id]}
                      ELSE inflight
       /\ waker' = IF started THEN [waker EXCEPT !["i2c"] = t] ELSE waker
       /\ result' = IF ready THEN [result EXCEPT !["i2c"] = NoResult] ELSE result
       /\ busy' = IF started /\ ~ready THEN Acquired("i2c")
                  ELSE BusyAfterReturn("i2c")
       /\ kgrant' = IF started /\ ~ready THEN granted ELSE KgrantAfterScopeExit(op)
       /\ pc' = IF started /\ ~ready THEN [pc EXCEPT ![t] = op] ELSE pc
       /\ ownOp' = IF started /\ ~ready THEN [ownOp EXCEPT ![t] = id] ELSE ownOp
       /\ ret' = [task |-> t,
                  what |-> IF ~started THEN "err"
                           ELSE IF ready THEN Outcome(id, result["i2c"])
                           ELSE "pending"]
       /\ UNCHANGED <<apiVars, alarmVars, woken, driver, buf, allowed>>

I2cRead(t) ==
    /\ driver = "i2c" /\ pc[t] = "idle"
    /\ writing' = writing
    /\ IF GuardTaken("i2c") THEN ReturnBusy(t)
       ELSE /\ nextOp < MaxOps
            /\ \E ar, cr \in SyscallResults : I2cBegin(t, "i2c_read", ar, "ok", cr)

I2cWrite(t) ==
    /\ driver = "i2c" /\ pc[t] = "idle"
    /\ writing' = writing
    /\ IF GuardTaken("i2c") THEN ReturnBusy(t)
       ELSE /\ nextOp < MaxOps
            /\ \E ar, cr \in SyscallResults : I2cBegin(t, "i2c_write", ar, "ok", cr)

I2cWriteRead(t) ==
    /\ driver = "i2c" /\ pc[t] = "idle"
    /\ writing' = writing
    /\ IF GuardTaken("i2c") THEN ReturnBusy(t)
       ELSE /\ nextOp < MaxOps
            /\ \E ar1, ar2, cr \in SyscallResults :
                  I2cBegin(t, "i2c_write_read", ar1, ar2, cr)

\* The operation lists handed to transaction: Operation::Read and
\* Operation::Write in every order, up to MaxOperations of them.
MaxOperations == 3
OperationKinds == {"Read", "Write"}
OperationLists ==
    UNION {[1..n -> OperationKinds] : n \in 0..MaxOperations}

\* A match that looks at the first operations and ignores the rest.
ArmByPrefix(ops) ==
    IF Len(ops) >= 2 /\ ops[1] = "Write" /\ ops[2] = "Read" THEN "write_read"
    ELSE IF Len(ops) >= 1 /\ ops[1] = "Read" THEN "read"
    ELSE IF Len(ops) >= 1 /\ ops[1] = "Write" THEN "write"
    ELSE "unsupported"
\* The arm of `match operations` that a list takes.
MatchedArm(ops) ==
    IF ops = <<"Read">> THEN "read"
    ELSE IF ops = <<"Write">> THEN "write"
    ELSE IF ops = <<"Write", "Read">> THEN "write_read"
    ELSE "unsupported"

\* The last arm: Err(ErrorCode::NoSupport).
ReturnNoSupport(t) ==
    /\ ret' = [task |-> t, what |-> "nosupport"]
    /\ UNCHANGED <<apiVars, alarmVars, guardVarsButRet>>

\* I2c::transaction.
Transaction(t, ops) ==
    /\ driver = "i2c" /\ pc[t] = "idle"
    /\ LET arm == MatchedArm(ops)
       IN CASE arm = "read" -> I2cRead(t)
            [] arm = "write" -> I2cWrite(t)
            [] arm = "write_read" -> I2cWriteRead(t)
            [] OTHER -> ReturnNoSupport(t)

\* Transaction::poll of a suspended operation, and on Ready the rest of the
\* operation: busy.store(false), the end of the share scope, the return.
Poll(t) ==
    /\ pc[t] # "idle"
    /\ LET d == DriverOf(pc[t])
           ready == result[d] # NoResult
       IN /\ waker' = [waker EXCEPT ![d] = t]
          /\ result' = [result EXCEPT ![d] = NoResult]
          /\ busy' = IF ready THEN BusyAfterReturn(d) ELSE busy
          /\ kgrant' = IF ready THEN KgrantAfterScopeExit(pc[t]) ELSE kgrant
          /\ pc' = IF ready THEN [pc EXCEPT ![t] = "idle"] ELSE pc
          /\ ownOp' = IF ready THEN [ownOp EXCEPT ![t] = 0] ELSE ownOp
          /\ ret' = IF ready THEN [task |-> t, what |-> Outcome(ownOp[t], result[d])]
                    ELSE ret
          \* write takes a completion Err(Busy) for a refusal and tries again
          /\ writing' = IF ready /\ ~CompletionIsBusy(result[d]) THEN writing \ {t}
                        ELSE writing
    /\ woken' = woken \ {t}
    /\ UNCHANGED <<apiVars, alarmVars, driver, nextOp, buf, allowed, inflight>>

\* The future of a suspended operation is dropped before its callback
\* arrives: the share scope ends, nothing else of the operation runs. The
\* future of a write that waits at yield_now between two tries holds no scope,
\* and dropping it only ends the retry loop.
Cancel(t) ==
    /\ pc[t] # "idle" \/ t \in writing
    /\ kgrant' = IF pc[t] # "idle" THEN KgrantAfterScopeExit(pc[t]) ELSE kgrant
    /\ pc' = [pc EXCEPT ![t] = "idle"]
    /\ ownOp' = [ownOp EXCEPT ![t] = 0]
    /\ ret' = [task |-> t, what |-> "cancelled"]
    /\ woken' = woken \ {t}
    /\ writing' = writing \ {t}
    /\ UNCHANGED <<apiVars, alarmVars, driver, busy, result, waker, nextOp, buf, allowed, inflight>>

\* A wake that reaches no task.
WokenNobody(d) == woken
\* STORAGE.waker.wake(): the registered waker is invoked by reference and stays
\* registered; the executor puts its task on the run queue (a task that is in
\* no operation any more has nothing to resume).
WokenAfterWake(d) ==
    IF waker[d] # NoTask /\ pc[waker[d]] # "idle" THEN woken \cup {waker[d]} ELSE woken

\* EmbassyListener::upcall of a driver: store the result, wake the waiter.
UpcallStore(d, c, st) ==
    /\ inflight' = inflight \ {c}
    /\ result' = [result EXCEPT ![d] = [id |-> c.id, st |-> st]]
    /\ woken' = WokenAfterWake(d)
    /\ UNCHANGED <<apiVars, alarmVars, writing, driver, busy, waker, pc, ownOp, ret, nextOp, buf, allowed,
                   kgrant>>

\* Upcall<OneId<DRIVER_NUM, subscribe::WRITE>>: always Ok(()).
ConsoleWriteUpcall ==
    \E c \in inflight : c.op = "console_write" /\ UpcallStore("console", c, "ok")

\* Upcall<OneId<DRIVER_NUM, subscribe::READ>>: the status decides Ok or Err.
ConsoleReadUpcall ==
    \E c \in inflight : \E st \in {"ok", "err", "busy"} :
        c.op = "console_read" /\ UpcallStore("console", c, st)

\* Upcall<OneId<DRIVER_NUM, subscribe::MASTER_READ_WRITE>>.
I2cUpcall ==
    \E c \in inflight : \E st \in {"ok", "err"} :
        c.op \in I2cOps /\ UpcallStore("i2c", c, st)

GuardNext ==
    \/ \E t \in Tasks : \E kind \in {"ro", "rw"} : NewBuffer(t, kind)
    \/ \E t \in Tasks : BufferAllow(t)
    \/ \E t \in Tasks : BufferUnallow(t)
    \/ \E t \in Tasks : GetMutBuffer(t)
    \/ \E t \in Tasks : DropBuffer(t)
    \/ \E t \in Tasks : ConsoleTryWrite(t)
    \/ \E t \in Tasks : ConsoleTryRead(t)
    \/ \E t \in Tasks : I2cRead(t)
    \/ \E t \in Tasks : I2cWrite(t)
    \/ \E t \in Tasks : I2cWriteRead(t)
    \/ \E t \in Tasks : Poll(t)
    \/ \E t \in Tasks : Cancel(t)
    \/ ConsoleWriteUpcall
    \/ ConsoleReadUpcall
    \/ I2cUpcall

\* No activation inside schedule_wake or the upcall handler.
NoSection == [sw |-> "idle", up |-> "idle", borrowed |-> 0,
              now |-> 0, next |-> 0, unow |-> 0, unext |-> 0]

\* The time driver before init_async_driver, where the guard specification leaves it.
AlarmIdle ==
    /\ inited = FALSE /\ overflows = 0 /\ overflow_next = FALSE /\ queue = <<>>
    /\ misordered = FALSE /\ ticks = 0 /\ wraps = 0
    /\ kalarm = [armed |-> FALSE, reference |-> 0, dt |-> 0] /\ upq = <<>>
    /\ direct = FALSE /\ listener = "driver"
    /\ cs = NoSection

\* No library function called yet.
ApiIdle == api = [fn |-> "none"]

GuardSpecInit == GuardInit /\ AlarmIdle /\ ApiIdle
SpecGuard == GuardSpecInit /\ [][GuardNext]_vars

\* The executor polls every task it has on its run queue.
RunWoken(t) == t \in woken /\ Poll(t)
SpecGuardLive == SpecGuard /\ \A t \in Tasks : WF_vars(RunWoken(t))

\* The console with tasks that write through ConsoleAsync::write, next to
\* tasks that call try_write themselves.
\* The I2C driver used through embedded_hal_async::i2c::I2c alone.
TransactionNext ==
    \/ \E t \in Tasks : \E ops \in OperationLists : Transaction(t, ops)
    \/ \E t \in Tasks : Poll(t)
    \/ \E t \in Tasks : Cancel(t)
    \/ I2cUpcall
TransactionSpecInit == GuardInit /\ driver = "i2c" /\ AlarmIdle /\ ApiIdle
SpecTransaction == TransactionSpecInit /\ [][TransactionNext]_vars

WriteNext ==
    \/ \E t \in Tasks : \E kind \in {"ro", "rw"} : NewBuffer(t, kind)
    \/ \E t \in Tasks : DropBuffer(t)
    \/ \E t \in Tasks : ConsoleWrite(t)
    \/ \E t \in Tasks : ConsoleTryWrite(t)
    \/ \E t \in Tasks : ConsoleTryRead(t)
    \/ \E t \in Tasks : Poll(t)
    \/ \E t \in Tasks : Cancel(t)
    \/ ConsoleWriteUpcall
    \/ ConsoleReadUpcall
WriteSpecInit == GuardInit /\ driver = "console" /\ AlarmIdle /\ ApiIdle
SpecWrite == WriteSpecInit /\ [][WriteNext]_vars

\* The executor runs every task that yielded or was woken, and the kernel
\* completes every command it accepted.
Retry(t) == t \in writing /\ ConsoleWrite(t)
SpecWriteLive ==
    /\ SpecWrite
    /\ \A t \in Tasks : WF_vars(RunWoken(t)) /\ WF_vars(Retry(t))
    /\ WF_vars(ConsoleWriteUpcall) /\ WF_vars(ConsoleReadUpcall)

\* ------------------------------------------------------------ time driver
\* The hardware counter and DRIVER.overflows are 32 bits wide and the logical
\* clock 64; the model keeps the same arithmetic on a counter of TickBits bits
\* and a clock of twice as many, which the model checker's integers can hold.
TickBits == 8
Wrap == 2 ^ TickBits
U32Max == Wrap - 1
U64Max == Wrap * Wrap - 1

\* The model visits the two ticks on each side of the counter's wraparound and
\* schedules deadlines at those ticks of the first MaxWraps + 1 periods; the
\* counter crosses the ticks in between in one step. MaxPending is the length
\* of the process's queue of undelivered alarm upcalls.
MaxWraps == 1
MaxPending == 2
Offsets == {0, 1, U32Max - 1, U32Max}
Deadlines == {k * Wrap + o : k \in 0..MaxWraps, o \in Offsets}

Low32(x) == x % Wrap
Min(a, b) == IF a <= b THEN a ELSE b

\* AsyncAlarmDriver::now
Now == ticks + overflows * Wrap

\* `now | (u32::MAX as u64)`: the last tick before the counter wraps.
NextOverflow(now) == (now \div Wrap) * Wrap + U32Max

\* The Deadline Queue is an ordered collection: its entries are kept in
\* non-decreasing order of expiration, an entry placed after the entries that
\* expire at the same instant.
InsertOrdered(q, at) ==
    LET k == Cardinality({j \in 1..Len(q) : q[j] <= at})
    IN SubSeq(q, 1, k) \o <<at>> \o SubSeq(q, k + 1, Len(q))

\* Queue::schedule_wake: one entry per task; a task without an entry gets one,
\* the entry of a task that has one is moved when the new expiration is not
\* later. i is the place of the calling task's entry in the queue, 0 when it
\* has none. The first component is the returned flag.
QueueScheduleWake(q, i, at) ==
    IF i = 0 THEN <<TRUE, InsertOrdered(q, at)>>
    ELSE IF at <= q[i]
         THEN <<TRUE, InsertOrdered(SubSeq(q, 1, i - 1) \o SubSeq(q, i + 1, Len(q)), at)>>
    ELSE <<FALSE, q>>

\* Queue::next_expiration(now): the entries expiring at or before now are
\* popped and woken, in the order of the queue, that is in non-decreasing order
\* of expiration; the result is the earliest expiration left.
Expired(q, now) == SelectSeq(q, LAMBDA e : e <= now)
Remaining(q, now) == SelectSeq(q, LAMBDA e : e > now /\ e # U64Max)
NextExpiration(q, now) ==
    LET later == {q[i] : i \in {j \in 1..Len(q) : q[j] > now}}
    IN IF later = {} THEN U64Max ELSE CHOOSE m \in later : \A x \in later : m <= x

\* History: the wakers of one batch were invoked against expiration order.
BatchMisordered(batch) ==
    \E i, j \in 1..Len(batch) : i < j /\ batch[i] > batch[j]

\* The kernel's alarm capsule: an alarm set with (reference, dt) has expired
\* once the counter is outside [reference, reference + dt), modulo 2^32.
WithinRange(x, start, end) ==
    IF start <= end THEN start <= x /\ x < end ELSE x >= start \/ x < end
AlarmExpired ==
    /\ kalarm.armed
    /\ ~WithinRange(ticks, kalarm.reference, Low32(kalarm.reference + kalarm.dt))

\* Process code runs only after the kernel has served the alarm interrupt, and
\* not while the process is blocked in sleep_for.
ProcessRuns == ~AlarmExpired /\ listener \notin {"sleep", "called"}

\* Alarm::set_absolute(Ticks(reference), Ticks(dt))
SetAbsolute(reference, dt) == [armed |-> TRUE, reference |-> reference, dt |-> dt]

\* AsyncAlarmDriver::init, called by the process outside the driver's sections.
DriverInit ==
    /\ ~inited /\ ProcessRuns /\ cs = NoSection
    /\ inited' = TRUE
    /\ overflow_next' = TRUE
    /\ kalarm' = SetAbsolute(ticks, U32Max - ticks)
    /\ UNCHANGED <<apiVars, guardVars, direct, listener, cs, overflows, queue, misordered, ticks, wraps, upq>>

\* A set_alarm that arms whatever the timestamp.
SetAlarmAlways(now, timestamp) == TRUE
\* AsyncAlarmDriver::set_alarm(now, timestamp): the alarm and the flag afterwards.
SetAlarmArms(now, timestamp) == timestamp < NextOverflow(now)
AlarmAfterSetAlarm(now, timestamp) ==
    IF SetAlarmArms(now, timestamp)
    THEN SetAbsolute(Low32(now), Low32(timestamp - now))
    ELSE kalarm
FlagAfterSetAlarm(now, timestamp) ==
    IF SetAlarmArms(now, timestamp) THEN FALSE ELSE overflow_next

\* Driver::schedule_wake(at, waker), called by the task whose item is the i-th
\* of the queue, or (i = 0) by one of the tasks that have no item in it.
ScheduleWake(i, at) ==
    /\ inited /\ ProcessRuns
    /\ i = 0 => Len(queue) < NumTasks
    /\ LET sw == QueueScheduleWake(queue, i, at)
           now == Now
           next == NextExpiration(sw[2], now)
       IN IF sw[1]
          THEN /\ queue' = Remaining(sw[2], now)
               /\ misordered' = (misordered \/ BatchMisordered(Expired(sw[2], now)))
               /\ kalarm' = AlarmAfterSetAlarm(now, next)
               /\ overflow_next' = FlagAfterSetAlarm(now, next)
          ELSE UNCHANGED <<queue, misordered, kalarm, overflow_next>>
    /\ UNCHANGED <<apiVars, guardVars, direct, listener, cs, inited, overflows, ticks, wraps, upq>>

\* An upcall that never counts an overflow.
OverflowsUncounted == overflows
\* EmbassyListener::upcall(now, ..): the overflow count it works with.
OverflowsAfterUpcall == IF overflow_next THEN (overflows + 1) % Wrap ELSE overflows

\* A logical time that leaves out the overflow this upcall counts.
UpcallNowBehind(arg) == overflows * Wrap + arg
\* EmbassyListener::upcall: the logical time it works with.
UpcallNow(arg) == OverflowsAfterUpcall * Wrap + arg

\* An upcall that always arms for the overflow boundary.
AlarmForOverflowOnly(now, next) ==
    SetAbsolute(Low32(now), Low32(NextOverflow(now) - now))
\* EmbassyListener::upcall: the alarm it arms before returning.
AlarmAfterUpcall(now, next) ==
    IF NextOverflow(now) <= next
    THEN SetAbsolute(Low32(now), Low32(NextOverflow(now) - now))
    ELSE SetAbsolute(Low32(now), Low32(next - now))

\* EmbassyListener::upcall, delivered when the process yields.
AlarmUpcall ==
    /\ upq # <<>> /\ ProcessRuns
    /\ overflow_next => overflows < MaxWraps + 1
    /\ LET now == UpcallNow(Head(upq))
           next == NextExpiration(queue, now)
       IN /\ overflows' = OverflowsAfterUpcall
          /\ queue' = Remaining(queue, now)
          /\ misordered' = (misordered \/ BatchMisordered(Expired(queue, now)))
          /\ overflow_next' = (NextOverflow(now) <= next)
          /\ kalarm' = AlarmAfterUpcall(now, next)
    /\ upq' = Tail(upq)
    /\ UNCHANGED <<apiVars, guardVars, direct, listener, cs, inited, ticks, wraps>>

\* The alarm API, exported next to the time driver, called by application code
\* on the driver's alarm; the tick values of its calls.
DirectTicks == {1, U32Max}

\* Alarm::cancel.
AlarmCancel ==
    /\ ProcessRuns /\ cs = NoSection
    /\ kalarm' = [kalarm EXCEPT !.armed = FALSE]
    /\ direct' = TRUE
    /\ UNCHANGED <<apiVars, guardVars, listener, cs, inited, overflows, overflow_next, queue,
                   misordered, ticks, wraps, upq>>

\* Alarm::set_relative(Ticks(dt)): the kernel arms the alarm dt ticks from the
\* counter's value.
AlarmSetRelative(dt) ==
    /\ ProcessRuns /\ cs = NoSection
    /\ kalarm' = SetAbsolute(ticks, dt)
    /\ direct' = TRUE
    /\ UNCHANGED <<apiVars, guardVars, listener, cs, inited, overflows, overflow_next, queue,
                   misordered, ticks, wraps, upq>>

\* Alarm::set_absolute(Ticks(reference), Ticks(dt)).
AlarmSetAbsolute(reference, dt) ==
    /\ ProcessRuns /\ cs = NoSection
    /\ kalarm' = SetAbsolute(reference, dt)
    /\ direct' = TRUE
    /\ UNCHANGED <<apiVars, guardVars, listener, cs, inited, overflows, overflow_next, queue,
                   misordered, ticks, wraps, upq>>

\* Alarm::register_listener: the subscription passes to a listener of the
\* application; the kernel drops the upcalls scheduled for the listener it
\* replaces.
AlarmRegisterListener ==
    /\ ProcessRuns /\ cs = NoSection
    /\ listener' = "app"
    /\ upq' = <<>>
    /\ direct' = TRUE
    /\ UNCHANGED <<apiVars, guardVars, cs, inited, overflows, overflow_next, queue, misordered,
                   ticks, wraps, kalarm>>

\* Alarm::unregister_listener: nobody is subscribed any more.
AlarmUnregisterListener ==
    /\ ProcessRuns /\ cs = NoSection
    /\ listener' = "none"
    /\ upq' = <<>>
    /\ direct' = TRUE
    /\ UNCHANGED <<apiVars, guardVars, cs, inited, overflows, overflow_next, queue, misordered,
                   ticks, wraps, kalarm>>

\* Alarm::sleep_for up to its yield_wait: the cell `called` is subscribed in
\* place of the listener, the alarm is set dt ticks ahead and the process
\* blocks.
AlarmSleepFor(dt) ==
    /\ ProcessRuns /\ cs = NoSection
    /\ listener' = "sleep"
    /\ upq' = <<>>
    /\ kalarm' = SetAbsolute(ticks, dt)
    /\ direct' = TRUE
    /\ UNCHANGED <<apiVars, guardVars, cs, inited, overflows, overflow_next, queue, misordered,
                   ticks, wraps>>

\* Alarm::sleep_for from the yield_wait that delivers the alarm's upcall to its
\* return: `called` is set, and leaving share::scope unsubscribes.
AlarmSleepReturn ==
    /\ listener = "called"
    /\ listener' = "none"
    /\ UNCHANGED <<apiVars, guardVars, direct, cs, inited, overflows, overflow_next, queue,
                   misordered, ticks, wraps, kalarm, upq>>

\* The kernel notices the expired alarm and schedules the upcall of whoever is
\* subscribed, with the counter value it reads then; the alarm is one-shot.
\* The process's upcall queue is bounded: an upcall that finds it full is
\* dropped.
KernelFire ==
    /\ AlarmExpired
    /\ upq' = IF listener = "driver" /\ Len(upq) < MaxPending THEN Append(upq, ticks) ELSE upq
    /\ listener' = IF listener = "sleep" THEN "called" ELSE listener
    /\ kalarm' = [kalarm EXCEPT !.armed = FALSE]
    /\ UNCHANGED <<apiVars, guardVars, direct, cs, inited, overflows, overflow_next, queue, misordered, ticks, wraps>>

\* The hardware counter advances: by one tick near the wraparound, and across
\* the rest of the period at once when nothing is waiting to be handled.
NextTick == IF ticks = U32Max THEN 0
            ELSE IF ticks + 1 \in Offsets THEN ticks + 1 ELSE U32Max - 1
Advance ==
    /\ inited
    /\ NextTick # Low32(ticks + 1) => (upq = <<>> /\ ~AlarmExpired)
    /\ ticks' = NextTick
    /\ UNCHANGED <<apiVars, guardVars, direct, listener, cs, inited, overflows, overflow_next, queue, misordered, kalarm, upq>>

\* The counter over the first MaxWraps + 1 periods, its wraps counted.
Tick ==
    /\ ticks = U32Max => wraps < MaxWraps
    /\ Advance
    /\ wraps' = IF ticks = U32Max THEN wraps + 1 ELSE wraps

\* The counter running on for ever; the count of its wraps stops at MaxWraps.
TickOn ==
    /\ Advance
    /\ wraps' = IF ticks = U32Max /\ wraps < MaxWraps THEN wraps + 1 ELSE wraps

AlarmInit ==
    /\ inited = FALSE /\ overflows = 0 /\ overflow_next = FALSE /\ queue = <<>>
    /\ misordered = FALSE /\ wraps = 0
    /\ ticks \in Offsets
    /\ kalarm = [armed |-> FALSE, reference |-> 0, dt |-> 0] /\ upq = <<>>
    /\ direct = FALSE /\ listener = "driver"
    /\ cs = NoSection

\* The drivers' STORAGE before any operation, where the alarm specification leaves it.
GuardIdle ==
    /\ driver = "console"
    /\ busy = [d \in Drivers |-> FALSE]
    /\ result = [d \in Drivers |-> NoResult]
    /\ waker = [d \in Drivers |-> NoTask]
    /\ pc = [t \in Tasks |-> "idle"]
    /\ ownOp = [t \in Tasks |-> 0]
    /\ ret = [task |-> NoTask, what |-> "none"]
    /\ nextOp = 0
    /\ buf = [t \in Tasks |-> "none"]
    /\ allowed = [t \in Tasks |-> FALSE]
    /\ kgrant = [s \in Slots |-> NoTask]
    /\ inflight = {}
    /\ woken = {}
    /\ writing = {}

\* The time driver with the alarm to itself: application code reaches the
\* alarm through the driver only.
DriverNext ==
    \/ DriverInit
    \/ \E i \in 0..Len(queue) : \E at \in Deadlines : ScheduleWake(i, at)
    \/ AlarmUpcall
    \/ KernelFire
    \/ Tick

AlarmSpecInit == AlarmInit /\ GuardIdle /\ ApiIdle
SpecAlarm == AlarmSpecInit /\ [][DriverNext]_vars

\* The time driver next to application code that also calls the alarm API.
AlarmNext ==
    \/ DriverInit
    \/ \E i \in 0..Len(queue) : \E at \in Deadlines : ScheduleWake(i, at)
    \/ AlarmUpcall
    \/ KernelFire
    \/ Tick
    \/ AlarmCancel
    \/ \E dt \in DirectTicks : AlarmSetRelative(dt)
    \/ \E reference, dt \in DirectTicks : AlarmSetAbsolute(reference, dt)
    \/ AlarmRegisterListener
    \/ AlarmUnregisterListener
    \/ \E dt \in DirectTicks : AlarmSleepFor(dt)
    \/ AlarmSleepReturn
SpecAlarmShared == AlarmSpecInit /\ [][AlarmNext]_vars

\* The same driver with a counter that never stops, a kernel that serves every
\* expired alarm and a process that always yields again.
AlarmNextLive ==
    \/ DriverInit
    \/ \E i \in 0..Len(queue) : \E at \in Deadlines : ScheduleWake(i, at)
    \/ AlarmUpcall
    \/ KernelFire
    \/ TickOn

SpecAlarmLive ==
    /\ AlarmSpecInit /\ [][AlarmNextLive]_vars
    /\ WF_vars(DriverInit) /\ WF_vars(TickOn) /\ SF_vars(KernelFire) /\ SF_vars(AlarmUpcall)

\* ------------------------------------- time driver, statement by statement
\* schedule_wake and the upcall handler taken one statement group at a time,
\* with the counter and the kernel running in between. TockCriticalSection's
\* acquire and release do nothing, so entering and leaving
\* critical_section::with changes no state.

\* A get_ticks that lets the kernel deliver upcalls.
YieldsAtGetTicks(place) == place = "now"
\* Whether the code at a place of schedule_wake or of the handler yields to the
\* kernel: the system calls there (get_ticks, cancel, set_absolute) are Commands,
\* and Waker::wake only marks a task as ready.
YieldsAt(place) == FALSE

\* The kernel delivers an upcall only while the process yields, which the
\* executor does when no task is running.
Yielding == (cs.sw = "idle" /\ cs.up = "idle") \/ YieldsAt(cs.sw) \/ YieldsAt(cs.up)

\* A loop that goes on while an expiration lies ahead.
LoopWhileLater(next, now) == next >= now
\* The condition of `while next <= now`.
LoopAgain(next, now) == next <= now

\* `while next <= now { next = queue.next_expiration(now); }` entered with the
\* queue and the result of the first next_expiration: the queue and next when
\* the loop exits. A pass that leaves both as they were is repeated forever,
\* and the loop does not exit.
RECURSIVE ExpirationLoop(_, _, _)
ExpirationLoop(q, now, next) ==
    IF ~LoopAgain(next, now)
    THEN [queue |-> q, next |-> next, exits |-> TRUE]
    ELSE LET q2 == Remaining(q, now)
             n2 == NextExpiration(q, now)
         IN IF q2 = q /\ n2 = next
            THEN [queue |-> q, next |-> next, exits |-> FALSE]
            ELSE ExpirationLoop(q2, now, n2)

\* schedule_wake: self.queue.borrow(cs).borrow_mut() and queue.schedule_wake(at, waker).
SwBorrow(i, at) ==
    /\ inited /\ ProcessRuns /\ cs.sw = "idle" /\ cs.up = "idle"
    /\ i = 0 => Len(queue) < NumTasks
    /\ LET sw == QueueScheduleWake(queue, i, at)
       IN /\ queue' = sw[2]
          /\ cs' = [cs EXCEPT !.sw = IF sw[1] THEN "now" ELSE "drop",
                              !.borrowed = @ + 1]
    /\ UNCHANGED <<apiVars, guardVars, direct, listener, inited, overflows, overflow_next, misordered,
                   ticks, wraps, kalarm, upq>>

\* schedule_wake: self.now() and the next_expiration loop.
SwNow ==
    /\ cs.sw = "now" /\ cs.up = "idle" /\ ProcessRuns
    /\ LET loop == ExpirationLoop(Remaining(queue, Now), Now, NextExpiration(queue, Now))
       IN /\ queue' = loop.queue
          /\ cs' = [cs EXCEPT !.sw = IF loop.exits THEN "arm" ELSE "spin",
                              !.now = Now, !.next = loop.next]
    /\ misordered' = (misordered \/ BatchMisordered(Expired(queue, Now)))
    /\ UNCHANGED <<apiVars, guardVars, direct, listener, inited, overflows, overflow_next, ticks, wraps,
                   kalarm, upq>>

\* schedule_wake: self.set_alarm(now, next).
SwArm ==
    /\ cs.sw = "arm" /\ cs.up = "idle" /\ ProcessRuns
    /\ kalarm' = AlarmAfterSetAlarm(cs.now, cs.next)
    /\ overflow_next' = FlagAfterSetAlarm(cs.now, cs.next)
    /\ cs' = [cs EXCEPT !.sw = "drop", !.now = 0, !.next = 0]
    /\ UNCHANGED <<apiVars, guardVars, direct, listener, inited, overflows, queue, misordered, ticks, wraps,
                   upq>>

\* schedule_wake: drop(queue) and the return.
SwDrop ==
    /\ cs.sw = "drop" /\ cs.up = "idle" /\ ProcessRuns
    /\ cs' = [cs EXCEPT !.sw = "idle", !.borrowed = @ - 1]
    /\ UNCHANGED <<apiVars, guardVars, direct, listener, inited, overflows, overflow_next, queue, misordered,
                   ticks, wraps, kalarm, upq>>

\* upcall: the kernel delivers it; overflow_next.fetch_and(false), the overflow
\* count and the logical now.
UpEnter ==
    /\ upq # <<>> /\ ProcessRuns /\ Yielding /\ cs.up = "idle"
    /\ overflow_next => overflows < MaxWraps + 1
    /\ overflows' = OverflowsAfterUpcall
    /\ overflow_next' = FALSE
    /\ cs' = [cs EXCEPT !.up = "queue", !.unow = UpcallNow(Head(upq))]
    /\ upq' = Tail(upq)
    /\ UNCHANGED <<apiVars, guardVars, direct, listener, inited, queue, misordered, ticks, wraps, kalarm>>

\* upcall: DRIVER.queue.borrow(cs).borrow_mut() and the next_expiration loop.
UpQueue ==
    /\ cs.up = "queue" /\ ProcessRuns
    /\ LET loop == ExpirationLoop(Remaining(queue, cs.unow), cs.unow,
                                   NextExpiration(queue, cs.unow))
       IN /\ queue' = loop.queue
          /\ cs' = [cs EXCEPT !.up = IF loop.exits THEN "arm" ELSE "spin",
                              !.borrowed = @ + 1, !.unext = loop.next]
    /\ misordered' = (misordered \/ BatchMisordered(Expired(queue, cs.unow)))
    /\ UNCHANGED <<apiVars, guardVars, direct, listener, inited, overflows, overflow_next, ticks, wraps,
                   kalarm, upq>>

\* upcall: drop(queue), the choice between the boundary and the next deadline,
\* set_absolute and the return.
UpArm ==
    /\ cs.up = "arm" /\ ProcessRuns
    /\ overflow_next' = IF NextOverflow(cs.unow) <= cs.unext THEN TRUE ELSE overflow_next
    /\ kalarm' = AlarmAfterUpcall(cs.unow, cs.unext)
    /\ cs' = [cs EXCEPT !.up = "idle", !.borrowed = @ - 1, !.unow = 0, !.unext = 0]
    /\ UNCHANGED <<apiVars, guardVars, direct, listener, inited, overflows, queue, misordered, ticks, wraps,
                   upq>>

\* The deadlines of the sections: the ticks on each side of the wraparound in
\* the first period, and the last instant but one of the 64-bit clock.
SectionDeadlines == Offsets \cup {U64Max - 1}

\* The counter within one period.
TickInPeriod ==
    /\ ticks # U32Max
    /\ Advance
    /\ wraps' = wraps

SectionNext ==
    \/ DriverInit
    \/ \E i \in 0..Len(queue) : \E at \in SectionDeadlines : SwBorrow(i, at)
    \/ SwNow
    \/ SwArm
    \/ SwDrop
    \/ UpEnter
    \/ UpQueue
    \/ UpArm
    \/ KernelFire
    \/ TickInPeriod
    \/ AlarmCancel
    \/ \E dt \in DirectTicks : AlarmSetRelative(dt)
    \/ \E reference, dt \in DirectTicks : AlarmSetAbsolute(reference, dt)
    \/ AlarmRegisterListener
    \/ AlarmUnregisterListener
    \/ \E dt \in DirectTicks : AlarmSleepFor(dt)
    \/ AlarmSleepReturn

\* The driver at the start of the last period its 64-bit clock can count: the
\* handler has counted overflow number 2^32 - 1 at tick 0 with an empty queue
\* and armed the alarm for the period's last tick.
LastPeriod ==
    /\ inited = TRUE /\ overflows = U32Max /\ overflow_next = TRUE /\ queue = <<>>
    /\ misordered = FALSE /\ wraps = MaxWraps
    /\ ticks = 0
    /\ kalarm = SetAbsolute(0, U32Max) /\ upq = <<>>
    /\ direct = FALSE /\ listener = "driver"
    /\ cs = NoSection

\* The sections run from the driver's construction and from the start of its
\* last period.
SectionSpecInit == (AlarmInit \/ LastPeriod) /\ GuardIdle /\ ApiIdle
SpecSections == SectionSpecInit /\ [][SectionNext]_vars

\* ------------------------------------------------- CAN identifiers, frames

\* The layout of the receive buffer: a count byte and three 14-byte records.
CANFRAME_SIZE == 14
CANFRAME_MAX_NUM == 3
UNREAD_COUNTER_SIZE == 1
CANFRAME_HEADER_SIZE == 6
CANFRAME_DATA_SIZE == 8

Bytes == 0..255

Standard(v) == [kind |-> "Standard", v |-> v]
Extended(v) == [kind |-> "Extended", v |-> v]

\* From<u32> for Id: the word is an extended identifier when its bits 31..30
\* are 01, and a standard one otherwise.
IdFromU32(value) ==
    IF value \div 2^30 = 1
    THEN Extended(value % 2^29)
    ELSE Standard(value % 2^15)

\* From<Id> for u32: the identifier's number, widened for a standard one.
U32FromId(id) ==
    CASE id.kind = "Standard" -> id.v
      [] id.kind = "Extended" -> id.v

\* u32::from_be_bytes.
FromBeBytes(b) == ((b[1] * 256 + b[2]) * 256 + b[3]) * 256 + b[4]

\* From<[u8; 43]> for Frames: the records without the count byte, the cursor
\* at the start, the count byte as the length.
FramesFromBuffer(buffer) ==
    [buffers |-> SubSeq(buffer, UNREAD_COUNTER_SIZE + 1, Len(buffer)),
     index   |-> 0,
     length  |-> buffer[1]]

\* Frames::len.
FramesLen(f) == f.length

\* Frames::next: whether the iterator has a record to yield.
FramesHasNext(f) ==
    f.length > 0 /\ f.index + CANFRAME_SIZE <= CANFRAME_MAX_NUM * CANFRAME_SIZE

\* Frames::next: the record under the cursor.
FrameAt(f) ==
    LET frame == SubSeq(f.buffers, f.index + 1, f.index + CANFRAME_SIZE)
    IN [id      |-> IdFromU32(FromBeBytes(SubSeq(frame, 1, 4))),
        len     |-> frame[5],
        message |-> SubSeq(frame, CANFRAME_HEADER_SIZE + 1, CANFRAME_SIZE)]

\* Frames::next: the iterator after yielding a record.
FramesAdvance(f) == [f EXCEPT !.index = f.index + CANFRAME_SIZE]

\* The identifiers the conversions are applied to.
IdInputs ==
    {Standard(v) : v \in {0, 1, 2047, 2048, 32767, 32768, 65535}}
    \cup {Extended(v) : v \in {0, 1, 2047, 2048, 32768, 2^29 - 1, 2^29, 2^30, 2^30 + 5}}

\* The receive buffers the kernel hands over: every count byte, over two fills
\* of the three records (the first byte of a record, the top of its
\* identifier word, is 0 or 64).
BufferFills == {0, 1}
ReceiveBuffer(count, fill) ==
    <<count>> \o
    [k \in 1..(CANFRAME_MAX_NUM * CANFRAME_SIZE) |->
        IF (k - 1) % CANFRAME_SIZE = 0 THEN 64 * fill ELSE (k + fill) % 256]

IdStart == {[fn |-> "id", stage |-> "id", id |-> i] : i \in IdInputs}
FramesStart ==
    {[fn |-> "frames", stage |-> "buffer", buffer |-> ReceiveBuffer(n, p)]
        : n \in Bytes, p \in BufferFills}

\* u32::from(id).
IdIntoU32 ==
    /\ api.fn = "id" /\ api.stage = "id"
    /\ api' = [fn |-> "id", stage |-> "raw", id |-> api.id, raw |-> U32FromId(api.id)]
    /\ UNCHANGED <<guardVars, alarmVars>>

\* Id::from(raw).
IdFromRaw ==
    /\ api.fn = "id" /\ api.stage = "raw"
    /\ api' = [fn |-> "id", stage |-> "back", id |-> api.id, raw |-> api.raw,
               back |-> IdFromU32(api.raw)]
    /\ UNCHANGED <<guardVars, alarmVars>>

\* Frames::from(buffer).
FramesFrom ==
    /\ api.fn = "frames" /\ api.stage = "buffer"
    /\ api' = [fn |-> "frames", stage |-> "iter", buffer |-> api.buffer,
               frames |-> FramesFromBuffer(api.buffer), yielded |-> <<>>]
    /\ UNCHANGED <<guardVars, alarmVars>>

\* Frames::next, until it returns None.
FramesNext ==
    /\ api.fn = "frames" /\ api.stage = "iter"
    /\ api' = IF FramesHasNext(api.frames)
              THEN [api EXCEPT !.frames = FramesAdvance(api.frames),
                               !.yielded = Append(api.yielded, FrameAt(api.frames))]
              ELSE [api EXCEPT !.stage = "done"]
    /\ UNCHANGED <<guardVars, alarmVars>>

\* ------------------------------------------------- CAN special frames
\* What the READ_SPECIAL_FRAME Command returned, as its accessors present it:
\* a (u32, u64) success, a failure with its error code, or any other shape. The
\* u32 is written as two 16-bit halves and the u64 as four, highest first.
ErrorCodes == {"NoMem", "Invalid", "Busy"}
StatusWords ==
    {<<counter * 256 + len, flags * 256>> :
        counter \in {0, 1, 128, 255}, len \in {0, 8}, flags \in {0, 1}}
DataWords == {<<0, 0, 0, 0>>, <<258, 772, 1286, 65535>>}
CommandReturns ==
    {[variant |-> "success_u32_u64", r0 |-> w, r1 |-> d] : w \in StatusWords, d \in DataWords}
    \cup {[variant |-> "failure", code |-> e] : e \in ErrorCodes}
    \cup {[variant |-> "other"]}

Ok(v) == [tag |-> "Ok", val |-> v]
Err(e) == [tag |-> "Err", code |-> e]

\* u32::to_be_bytes / u64::to_be_bytes over 16-bit halves.
ToBeBytes(w) == [k \in 1..(2 * Len(w)) |->
                    IF k % 2 = 1 THEN w[(k + 1) \div 2] \div 256 ELSE w[k \div 2] % 256]

\* Can::read_special_frame(id), given what the Command returned.
ReadSpecialFrame(id, cr) ==
    IF cr.variant = "success_u32_u64"
    THEN LET status == ToBeBytes(cr.r0)
         IN Ok(<<[id |-> id, len |-> status[2], message |-> ToBeBytes(cr.r1)],
                 status[1], status[3]>>)
    ELSE IF cr.variant = "failure" THEN Err(cr.code)
    ELSE Err("BadRVal")

\* A read that hands out the frame whatever its read counter.
ReadAnySpecialFrame(id, cr) ==
    LET r == ReadSpecialFrame(id, cr)
    IN IF r.tag = "Err" THEN r ELSE Ok(r.val[1])
\* Can::read_new_special_frame(id), given what the Command returned.
ReadNewSpecialFrame(id, cr) ==
    LET r == ReadSpecialFrame(id, cr)
    IN IF r.tag = "Err" THEN r
       ELSE IF r.val[2] = 0 THEN Ok(r.val[1])
       ELSE Err("Already")

SpecialStart ==
    {[fn |-> "read_new_special_frame", stage |-> "call", id |-> i, cr |-> r]
        : i \in {Standard(1), Extended(2048)}, r \in CommandReturns}

\* Can::read_new_special_frame.
ReadNew ==
    /\ api.fn = "read_new_special_frame" /\ api.stage = "call"
    /\ api' = [fn |-> "read_new_special_frame", stage |-> "out", id |-> api.id,
               cr |-> api.cr, out |-> ReadNewSpecialFrame(api.id, api.cr)]
    /\ UNCHANGED <<guardVars, alarmVars>>

\* ------------------------------------------------- milliseconds to ticks

\* A u32 is written here as two 16-bit halves <<high, low>>, so that every
\* intermediate value of the 32-bit arithmetic stays exact.
Half == 2^16
U32Halves(n) == <<n \div Half, n % Half>>

\* The 32-bit product of two 16-bit numbers, as halves.
Mul16(x, y) ==
    LET upper == (x \div 256) * y
        lower == (x % 256) * y
        low   == (upper % 256) * 256 + lower
    IN <<upper \div 256 + low \div Half, low % Half>>

\* The full 64-bit product of two u32, as four 16-bit digits, highest first.
WideMul(a, b) ==
    LET x == U32Halves(a)
        y == U32Halves(b)
        p00 == Mul16(x[2], y[2])
        p01 == Mul16(x[2], y[1])
        p10 == Mul16(x[1], y[2])
        p11 == Mul16(x[1], y[1])
        s1 == p00[1] + p01[2] + p10[2]
        s2 == p01[1] + p10[1] + p11[2] + s1 \div Half
    IN <<p11[1] + s2 \div Half, s2 % Half, s1 % Half, p00[2]>>

\* A product that keeps the low 32 bits.
WrappingMul(a, b) == <<WideMul(a, b)[3], WideMul(a, b)[4]>>
\* u32::saturating_mul: the product, or u32::MAX when it does not fit.
SaturatingMul(a, b) ==
    LET w == WideMul(a, b)
    IN IF w[1] > 0 \/ w[2] > 0 THEN <<Half - 1, Half - 1>> ELSE <<w[3], w[4]>>

\* div_ceil(a, other): a / other and a % other by long division over the two
\* halves of a, then one more when the remainder is not zero.
DivCeil(a, other) ==
    LET rest == (a[1] % other) * Half + a[2]
        d == (a[1] \div other) * Half + rest \div other
        m == rest % other
    IN IF m = 0 THEN d ELSE d + 1

\* Milliseconds(ms).to_ticks(Hz(freq)).
ToTicks(ms, freq) == DivCeil(SaturatingMul(ms, freq), 1000)

\* The durations and frequencies the conversion is applied to.
MsInputs == {0, 1, 2, 999, 1000, 1001, 2500, 65535, 65536, 65537, 4294967,
             4294968, 2147483647}
HzInputs == {0, 1, 3, 1000, 1001, 32768, 65535, 65536, 65537, 1000000,
             16000000, 2147483647}
TicksStart ==
    {[fn |-> "ticks", stage |-> "in", ms |-> m, freq |-> f]
        : m \in MsInputs, f \in HzInputs}

\* From<u32> for Id on a full 32-bit word, given as its 16-bit halves
\* <<upper, lower>>: `value >> 30` is the upper half's bits 15..14,
\* `value & 0x1fff_ffff` keeps the upper half's low 13 bits and the lower half,
\* `value & 0x7fff` the lower half's low 15 bits.
IdFromWord(h) ==
    IF h[1] \div 2^14 = 1
    THEN Extended((h[1] % 2^13) * Half + h[2])
    ELSE Standard(h[2] % 2^15)

\* The encoded words decoded: the upper half with each setting of bits 31..29,
\* the lower half on each side of 11, 15 and 16 bits.
WordUppers == {0, 1, 8191, 8192, 16384, 16385, 24575, 24576, 32767, 32768,
               49152, 57344, 65535}
WordLowers == {0, 1, 2047, 2048, 32767, 32768, 65535}
WordStart ==
    {[fn |-> "decode", stage |-> "word", word |-> <<u, l>>]
        : u \in WordUppers, l \in WordLowers}

\* Id::from(word).
IdDecode ==
    /\ api.fn = "decode" /\ api.stage = "word"
    /\ api' = [fn |-> "decode", stage |-> "id", word |-> api.word,
               id |-> IdFromWord(api.word)]
    /\ UNCHANGED <<guardVars, alarmVars>>

\* Milliseconds::to_ticks.
MillisecondsToTicks ==
    /\ api.fn = "ticks" /\ api.stage = "in"
    /\ api' = [fn |-> "ticks", stage |-> "out", ms |-> api.ms, freq |-> api.freq,
               out |-> ToTicks(api.ms, api.freq)]
    /\ UNCHANGED <<guardVars, alarmVars>>

\* ConsoleBufWriter<SIZE>: a buffer of SIZE bytes and the strings written to it,
\* of up to MaxStrLen bytes out of two letters.
SIZE == 3
MaxStrLen == 4
Letters == {97, 98}
Strings == UNION {[1..n -> Letters] : n \in 0..MaxStrLen}

\* ConsoleBufWriter::new, before any write; log is the history of the strings
\* written with Ok, one after the other.
WriterStart ==
    {[fn |-> "writer", buf |-> [i \in 1..SIZE |-> 0], pos |-> 0,
      arg |-> <<>>, res |-> "none", log |-> <<>>]}

\* A test of the string against the whole buffer.
FitsEmptyBuffer(len, pos) == ~(len > SIZE)
\* `s.len() + self.pos > SIZE` is false.
Fits(len, pos) == ~(len + pos > SIZE)

\* `self.buf[self.pos..][..s.len()].copy_from_slice(s.as_bytes())`: the bytes
\* of the string at pos, pos + 1, ..., the other bytes of the array as they were.
CopyFromSlice(b, pos, str) ==
    [i \in 1..SIZE |-> IF pos < i /\ i <= pos + Len(str) THEN str[i - pos] ELSE b[i]]

\* write_str(s).
WriteStr(str) ==
    /\ api.fn = "writer"
    /\ api' = IF Fits(Len(str), api.pos)
              THEN [api EXCEPT !.buf = CopyFromSlice(@, api.pos, str),
                               !.pos = @ + Len(str),
                               !.arg = str, !.res = "ok", !.log = @ \o str]
              ELSE [api EXCEPT !.arg = str, !.res = "err"]
    /\ UNCHANGED <<guardVars, alarmVars>>

ApiInit ==
    api \in IdStart \cup FramesStart \cup TicksStart \cup SpecialStart \cup WordStart
            \cup WriterStart
ApiNext ==
    \/ IdIntoU32 \/ IdFromRaw \/ FramesFrom \/ FramesNext \/ MillisecondsToTicks
    \/ ReadNew \/ IdDecode
    \/ \E str \in Strings : WriteStr(str)
ApiSpecInit == ApiInit /\ GuardIdle /\ AlarmIdle
SpecApi == ApiSpecInit /\ [][ApiNext]_vars

\* ------------------------------------------------------- Alarm::sleep_for
\* One call of the blocking sleep_for, in a process that may hold other
\* subscriptions. The record api holds the call: where it stands (at), the
\* Cell `called`, the ticks handed to SET_RELATIVE, the result, and the kernel's
\* side: whether the CALLBACK upcall is subscribed, the alarm armed (with its
\* dt), and the queue of upcalls waiting for the process to yield.

\* The durations and frequencies of the calls; an alarm set earlier may still be
\* armed when the call starts.
SleepMs == {0, 1, 2500}
SleepHz == {1000, 32768}
SleepStart ==
    {[fn |-> "sleep", at |-> "frequency", ms |-> m, ticks |-> 0, called |-> FALSE,
      res |-> "none", waited |-> FALSE, spurious |-> FALSE,
      subscribed |-> FALSE, armed |-> a, dt |-> 0, pending |-> <<>>]
        : m \in SleepMs, a \in BOOLEAN}

\* The end of share::scope: the Subscribe handle unsubscribes, and the kernel
\* drops the upcalls queued for the subscription.
PendingAfterScope(pending) == SelectSeq(pending, LAMBDA u : u # "alarm")

\* `let freq = Self::get_frequency()?; let ticks = time.to_ticks(freq);`
SleepGetFrequency ==
    /\ api.fn = "sleep" /\ api.at = "frequency"
    /\ \E r \in SyscallResults : \E f \in SleepHz :
          api' = IF r = "ok"
                 THEN [api EXCEPT !.at = "subscribe", !.ticks = ToTicks(api.ms, f)]
                 ELSE [api EXCEPT !.at = "returned", !.res = "err"]
    /\ UNCHANGED <<guardVars, alarmVars>>

\* `S::subscribe(subscribe, &called)?`
SleepSubscribe ==
    /\ api.fn = "sleep" /\ api.at = "subscribe"
    /\ \E r \in SyscallResults :
          api' = IF r = "ok"
                 THEN [api EXCEPT !.at = "set_relative", !.subscribed = TRUE]
                 ELSE [api EXCEPT !.at = "returned", !.res = "err"]
    /\ UNCHANGED <<guardVars, alarmVars>>

\* `S::command(DRIVER_NUM, command::SET_RELATIVE, ticks.0, 0).to_result()...?`
SleepSetRelative ==
    /\ api.fn = "sleep" /\ api.at = "set_relative"
    /\ \E r \in SyscallResults :
          api' = IF r = "ok"
                 THEN [api EXCEPT !.at = "yield", !.armed = TRUE, !.dt = api.ticks]
                 ELSE [api EXCEPT !.at = "returned", !.res = "err", !.subscribed = FALSE,
                                  !.pending = PendingAfterScope(@)]
    /\ UNCHANGED <<guardVars, alarmVars>>

\* A loop left after any upcall.
LeavesAfterAnyUpcall(called) == TRUE
\* `if let Some((_when, _ref)) = called.get()`.
LeavesLoop(called) == called

\* One pass of the loop: S::yield_wait() returns once the kernel has run one
\* queued upcall (the alarm's stores Some in `called`), then the test of
\* `called`, and on Some the return through the end of the scope.
SleepYieldWait ==
    /\ api.fn = "sleep" /\ api.at = "yield" /\ api.pending # <<>>
    /\ LET upcall == Head(api.pending)
           called == api.called \/ upcall = "alarm"
       IN api' = IF LeavesLoop(called)
                 THEN [api EXCEPT !.at = "returned", !.res = "ok", !.called = called,
                                  !.waited = TRUE, !.subscribed = FALSE,
                                  !.pending = PendingAfterScope(Tail(@))]
                 ELSE [api EXCEPT !.called = called, !.waited = TRUE, !.spurious = TRUE,
                                  !.pending = Tail(@)]
    /\ UNCHANGED <<guardVars, alarmVars>>

\* The kernel's alarm expires: it is disarmed, and the upcall is queued when
\* the process has one subscribed.
SleepAlarmFires ==
    /\ api.fn = "sleep" /\ api.armed /\ Len(api.pending) < MaxPending
    /\ api' = [api EXCEPT !.armed = FALSE,
                          !.pending = IF api.subscribed THEN Append(@, "alarm") ELSE @]
    /\ UNCHANGED <<guardVars, alarmVars>>

\* An upcall of another subscription of the process is queued.
SleepOtherUpcall ==
    /\ api.fn = "sleep" /\ api.at # "returned" /\ Len(api.pending) < MaxPending
    /\ api' = [api EXCEPT !.pending = Append(@, "other")]
    /\ UNCHANGED <<guardVars, alarmVars>>

SleepNext ==
    \/ SleepGetFrequency
    \/ SleepSubscribe
    \/ SleepSetRelative
    \/ SleepYieldWait
    \/ SleepAlarmFires
    \/ SleepOtherUpcall
SleepSpecInit == api \in SleepStart /\ GuardIdle /\ AlarmIdle
SpecSleep == SleepSpecInit /\ [][SleepNext]_vars

\* The process runs, and the kernel serves the alarm it was asked for and
\* delivers queued upcalls to a process that waits.
SpecSleepLive ==
    /\ SpecSleep
    /\ WF_vars(SleepGetFrequency) /\ WF_vars(SleepSubscribe) /\ WF_vars(SleepSetRelative)
    /\ WF_vars(SleepYieldWait) /\ SF_vars(SleepAlarmFires)

\* ------------------------------------------------------------------ claims
\* The tasks suspended inside an operation of driver d.
Holders(d) == {t \in Tasks : pc[t] # "idle" /\ DriverOf(pc[t]) = d}

\* A step in which a call by task t of a driver operation that acquired the
\* guard returns: at once, or from its suspension when the result is there.
ReturnsFrom(t) ==
    \/ nextOp' # nextOp /\ pc'[t] = "idle" /\ ret'.task = t
    \/ pc[t] # "idle" /\ pc'[t] = "idle" /\ ret'.what # "cancelled"

\* A step in which a call by some task returns Busy.
RejectedBusy == ret'.what = "busy" /\ ret' # ret

\* C1: while an operation holds a driver's busy flag no other operation of that
\* driver begins (no new operation number, no new Command), and at most one
\* operation per driver is suspended between acquisition and release, with
\* the flag set.
C1_AtMostOne ==
    \A d \in Drivers : Cardinality(Holders(d)) <= 1 /\ (Holders(d) # {} => busy[d])
C1_MutualExclusion ==
    [][/\ busy[driver] => (nextOp' = nextOp /\ inflight' \subseteq inflight
                           /\ Holders(driver)' \subseteq Holders(driver))
       /\ C1_AtMostOne']_vars
\* One task is suspended in an operation and another task's attempt got Busy.
C1_Witness ==
    \E t \in Tasks : pc[t] # "idle" /\ ret.what = "busy" /\ ret.task # t /\ busy[driver]

\* C2: an attempt that returns Busy issues no Allow and no Command and leaves
\* the result slot, the waker and the busy flag alone; and the outstanding
\* operation that completes after such a rejection returns the result stored
\* by its own callback.
C2_BusyLeavesFirstIntact ==
    [][/\ RejectedBusy => UNCHANGED <<busy, result, waker, inflight, kgrant, allowed,
                                      nextOp, pc, ownOp>>
       /\ \A t \in Tasks :
             (ret.what = "busy" /\ pc[t] # "idle" /\ pc'[t] = "idle"
                /\ ret'.what # "cancelled")
             => ret'.what \in {"ok", "cberr"}]_vars

\* C3: now() never decreases between two instants at which the process runs.
C3_NowMonotonic == [][(ProcessRuns /\ ProcessRuns') => Now' >= Now]_vars

\* Nothing of the alarm is left to be handled: it is armed, not due, and no
\* upcall is waiting for the process to yield.
Quiescent == inited /\ upq = <<>> /\ kalarm.armed /\ ~AlarmExpired

\* C4: once the upcalls have been handled, the overflow count is the number of
\* times the hardware counter has wrapped.
C4_OverflowCount == Quiescent => overflows = wraps

\* The tick the alarm is armed for, the earliest expiration in the queue, the
\* instant the alarm should be armed for, and how far ahead of the hardware
\* counter a tick lies.
Target == Low32(kalarm.reference + kalarm.dt)
Earliest == NextExpiration(queue, -1)
Want == Min(Earliest, NextOverflow(Now))
Dist(x) == Low32(x - ticks + Wrap)

\* C5 as stated: once the driver is initialised the alarm is armed, for
\* min(earliest pending deadline, next overflow boundary).
C5_AlwaysArmedForMin == inited => (kalarm.armed /\ Target = Low32(Want))

\* C5: while application code has called no alarm function itself, once the
\* driver is initialised the alarm is armed or the upcall of a fired alarm is
\* waiting to be delivered; while the alarm is armed and not due its target is
\* never later than min(earliest pending deadline, next overflow boundary).
C5_ArmedNoLaterThanMin ==
    (inited /\ ~direct) =>
        /\ kalarm.armed \/ upq # <<>>
        /\ (kalarm.armed /\ ~AlarmExpired) => Dist(Target) <= Dist(Low32(Want))
\* schedule_wake has armed the alarm for a deadline earlier than the overflow
\* boundary, and the alarm is not due yet.
C5_Witness ==
    /\ inited /\ kalarm.armed /\ ~AlarmExpired /\ ~overflow_next
    /\ queue # <<>> /\ Earliest < NextOverflow(Now) /\ Target = Low32(Earliest)
    /\ Dist(Target) > 0

\* A deadline has an entry in the queue.
InQueue(at) == \E i \in 1..Len(queue) : queue[i] = at

\* C6: the waker of every deadline in the queue is invoked, the entry leaving
\* the queue with it (unless the overflow count has reached the end of the
\* modelled range), and the wakers are invoked in non-decreasing order of
\* expiration.
C6_WokenOnceInOrder ==
    /\ []~misordered
    /\ \A at \in Deadlines : InQueue(at) ~> (~InQueue(at) \/ overflows = MaxWraps + 1)

\* C7: every deadline in the queue is eventually woken and removed, unless the
\* overflow count has reached the end of the modelled range.
C7_EveryDeadlineWoken ==
    \A at \in Deadlines : InQueue(at) ~> (~InQueue(at) \/ overflows = MaxWraps + 1)

\* C8: a task whose buffer's scope has ended holds no allowed flag and no
\* grant in the console's slots, and a task outside any I2C operation (returned,
\* failed early or cancelled) holds no grant in the I2C slots.
C8_ScopeExitRevokes ==
    \A t \in Tasks :
        /\ buf[t] = "none" =>
              (~allowed[t] /\ kgrant["console_ro"] # t /\ kgrant["console_rw"] # t)
        /\ pc[t] \notin I2cOps => (kgrant["i2c_ro"] # t /\ kgrant["i2c_rw"] # t)
\* An I2C operation was dropped while suspended, after the kernel had accepted
\* its buffers and its Command.
C8_Witness ==
    /\ ret.what = "cancelled" /\ pc[ret.task] = "idle" /\ driver = "i2c"
    /\ inflight # {} /\ kgrant["i2c_ro"] = NoTask /\ kgrant["i2c_rw"] = NoTask

\* C9: no operation completes with a result that the slot held for another
\* operation.
C9_NoStaleResult == ret.what # "stale"

\* C10: when a call that acquired the busy flag returns, the flag is clear.
C10_ReturnClearsBusy ==
    [][\A t \in Tasks : ReturnsFrom(t) => ~busy'[driver]]_vars
\* An operation returned the error its callback delivered, and the guard is free.
C10_Witness == ret.what = "cberr" /\ ~busy[driver] /\ pc[ret.task] = "idle"

\* C11 as stated: a call whose Allow or Command fails returns the error without
\* suspending and leaves no Command in flight.
C11_FailedStartLeavesNothing ==
    [][(nextOp' # nextOp /\ ret'.what = "err") => (inflight' = inflight /\ pc' = pc)]_vars

\* The suspended tasks are on the run queue or are the registered waker of
\* their driver, and those whose slot holds a result are on the run queue.
NoLostWake ==
    \A t \in Tasks : pc[t] # "idle" =>
        /\ t \in woken \/ waker[DriverOf(pc[t])] = t
        /\ result[DriverOf(pc[t])] # NoResult => t \in woken

\* C12: a suspended task becomes Ready only when the slot holds a result, and
\* returns that result; no wake-up is lost; and a task whose result has been
\* stored is eventually polled and leaves its operation.
C12_ReadyAfterCallback ==
    /\ [][/\ \A t \in Tasks :
               (pc[t] # "idle" /\ pc'[t] = "idle" /\ ret'.what # "cancelled")
               => /\ result[DriverOf(pc[t])] # NoResult
                  /\ ret' = [task |-> t,
                             what |-> Outcome(ownOp[t], result[DriverOf(pc[t])])]
          /\ NoLostWake']_vars
    /\ \A t \in Tasks :
          (pc[t] # "idle" /\ result[DriverOf(pc[t])] # NoResult) ~> (pc[t] = "idle")
\* The callback has stored a result and woken the suspended task, which has
\* not been polled yet.
C12_Witness ==
    \E t \in Tasks : /\ pc[t] # "idle" /\ t \in woken
                      /\ result[DriverOf(pc[t])].id = ownOp[t]

\* A step of schedule_wake(at) by the owner of item i (0: a new item) in which
\* the queue took the deadline.
Inserts(i, at) == ScheduleWake(i, at) /\ QueueScheduleWake(queue, i, at)[1]

\* The logical time at which the armed alarm is due.
TargetTime == Now + Dist(Target)

\* C13 as stated: a deadline in the future and earlier than the armed target
\* becomes the target and clears overflow_next; a deadline later than the
\* armed target changes neither; the target afterwards is min(earliest
\* deadline, now | 0xFFFFFFFF).
C13_TargetIsMin ==
    [][\A i \in 0..Len(queue) : \A at \in Deadlines :
         (Inserts(i, at) /\ kalarm.armed) =>
            /\ (Now < at /\ at < TargetTime)
                  => (kalarm'.armed /\ Target' = Low32(at) /\ ~overflow_next')
            /\ at > TargetTime
                  => (kalarm'.armed /\ Target' = Target /\ overflow_next' = overflow_next)
            /\ kalarm'.armed /\ Target' = Low32(Want')]_vars

\* C13: when the earliest deadline left in the queue is before the overflow
\* boundary now | 0xFFFFFFFF, schedule_wake arms the alarm for it and clears
\* overflow_next, as it does, while application code has called no alarm
\* function itself, for a deadline in the future and earlier than the armed
\* target; otherwise it leaves the alarm and overflow_next as they were.
C13_RearmRule ==
    [][\A i \in 0..Len(queue) : \A at \in Deadlines :
         Inserts(i, at) =>
            /\ IF Earliest' < NextOverflow(Now)
               THEN kalarm'.armed /\ Target' = Low32(Earliest') /\ ~overflow_next'
               ELSE kalarm' = kalarm /\ overflow_next' = overflow_next
            /\ (~direct /\ kalarm.armed /\ Now < at /\ at < TargetTime)
                  => (kalarm'.armed /\ Target' = Low32(at) /\ ~overflow_next')]_vars
\* Two deadlines are queued and the alarm is armed for the earlier one, which
\* was inserted last.
C13_Witness ==
    /\ inited /\ kalarm.armed /\ ~overflow_next /\ upq = <<>> /\ Len(queue) = 2
    /\ queue[1] < queue[2] /\ Now < queue[1] /\ Target = Low32(queue[1])

\* C14: an alarm upcall that finds overflow_next set adds exactly one to the
\* overflow count, and one that finds it clear leaves the count alone; the flag
\* afterwards is set only by the re-arm decision, whatever it was before; with
\* the flag set and no deadline queued the count goes up by one and the alarm is
\* armed for the overflow boundary with overflow_next set again.
C14_UpcallCountsOverflow ==
    [][AlarmUpcall =>
         /\ overflows' = IF overflow_next THEN overflows + 1 ELSE overflows
         /\ overflow_next' = (NextOverflow(overflows' * Wrap + Head(upq)) <= Earliest')
         /\ (overflow_next /\ queue = <<>>)
               => /\ overflows' = overflows + 1
                  /\ overflow_next' /\ kalarm'.armed /\ Target' = U32Max]_vars
\* An overflow has been counted with nothing queued, and the alarm is armed for
\* the next overflow boundary.
C14_Witness ==
    /\ inited /\ overflows >= 1 /\ overflow_next /\ queue = <<>> /\ upq = <<>>
    /\ kalarm.armed /\ Target = U32Max /\ kalarm.reference # U32Max

\* C15 as stated: an identifier converted to its 32-bit word and back is the
\* identifier it was, for a standard one up to 0x7FF and an extended one up to
\* 0x1FFFFFFF.
C15_IdRoundTrip ==
    (/\ api.fn = "id" /\ api.stage = "back"
     /\ \/ api.id.kind = "Standard" /\ api.id.v <= 2047
        \/ api.id.kind = "Extended" /\ api.id.v <= 2^29 - 1)
    => api.back = api.id

\* The number of whole records the buffer behind the iterator holds.
RecordsFitting(f) == Len(f.buffers) \div CANFRAME_SIZE

\* C16 as stated: iteration yields min(count byte, records fitting) frames,
\* two for a count of two and none for a count of zero, and never more than
\* Frames::len().
C16_YieldsCount ==
    (api.fn = "frames" /\ api.stage = "done")
    => /\ Len(api.yielded) = Min(api.buffer[1], RecordsFitting(api.frames))
       /\ api.buffer[1] = 2 => Len(api.yielded) = 2
       /\ api.buffer[1] = 0 => Len(api.yielded) = 0
       /\ Len(api.yielded) <= FramesLen(api.frames)

\* C17: allow() on a buffer whose flag is set returns success and changes
\* nothing, and allow() always leaves the flag set; unallow() on a buffer whose
\* flag is clear changes nothing, and unallow() always leaves the flag clear;
\* unallow() on a buffer whose flag is set leaves the kernel without a grant for
\* the slot, whatever operations are outstanding.
C17_AllowUnallowIdempotent ==
    [][\A t \in Tasks :
         /\ (BufferAllow(t) /\ allowed[t])
               => /\ \A ar \in SyscallResults : AllowResult(t, ar) = "ok"
                  /\ UNCHANGED <<kgrant, allowed, inflight>>
         /\ BufferAllow(t) => allowed'[t]
         /\ (BufferUnallow(t) /\ ~allowed[t]) => UNCHANGED <<kgrant, allowed, inflight>>
         /\ BufferUnallow(t) => ~allowed'[t]
         /\ (BufferUnallow(t) /\ allowed[t])
               => kgrant'[BufferSlot(buf[t])] = NoTask]_vars
\* A task dropped its suspended operation and then revoked its buffer while a
\* command is still outstanding in the kernel.
C17_Witness ==
    \E t \in Tasks :
        /\ ret = [task |-> t, what |-> "cancelled"]
        /\ buf[t] # "none" /\ ~allowed[t] /\ inflight # {}
        /\ kgrant[BufferSlot(buf[t])] = NoTask

\* C18 as stated: no two live buffers for the same driver and slot have their
\* allowed flag set at the same time.
C18_OneAllowedPerSlot ==
    \A t, u \in Tasks :
        (/\ t # u /\ buf[t] # "none" /\ buf[u] # "none"
         /\ BufferSlot(buf[t]) = BufferSlot(buf[u]))
        => ~(allowed[t] /\ allowed[u])

\* ceil(min(ms * f, 2^32 - 1) / 1000), worked out over the thousands and the
\* units of ms and f: ms * f / 1000 is whole + part / 1000, and a product that
\* does not fit 32 bits counts as 2^32 - 1, whose thousandth rounds up to
\* 4294968.
CeilOfCappedProduct(ms, f) ==
    LET mq == ms \div 1000
        mr == ms % 1000
        fq == f \div 1000
        fr == f % 1000
        whole == mq * fq * 1000 + mq * fr + mr * fq + (mr * fr) \div 1000
        part == (mr * fr) % 1000
    IN IF mq > 0 /\ fq > 4294 \div mq THEN 4294968
       ELSE IF whole > 4294967 THEN 4294968
       ELSE IF part = 0 THEN whole ELSE whole + 1

\* C19: to_ticks gives ceil(min(ms * f, 2^32 - 1) / 1000), and for the same
\* frequency no shorter duration gives more ticks.
C19_ToTicksSaturatesRoundsUp ==
    (api.fn = "ticks" /\ api.stage = "out")
    => /\ api.out = CeilOfCappedProduct(api.ms, api.freq)
       /\ \A shorter \in MsInputs :
             shorter <= api.ms => ToTicks(shorter, api.freq) <= api.out
\* A duration and a frequency whose product does not fit 32 bits were
\* converted, to the top tick count.
C19_Witness ==
    /\ api.fn = "ticks" /\ api.stage = "out"
    /\ api.ms >= 65536 /\ api.freq >= 65536 /\ api.out = 4294968

\* C20 as stated: while the command of a suspended operation is outstanding in
\* the kernel and its callback is not delivered, the driver's busy flag stays
\* set and no other operation gets past the guard.
C20_LostCallbackStaysBusy ==
    [][\A t \in Tasks :
         (/\ pc[t] # "idle"
          /\ \E c \in inflight \cap inflight' : c.id = ownOp[t])
         => /\ busy'[DriverOf(pc[t])]
            /\ nextOp' = nextOp]_vars

\* C21 as stated: ConsoleAsync::write never returns Busy, and a task inside
\* write eventually returns from it (as long as the run has operations left to
\* start).
C21_WriteEventuallyReturns ==
    /\ [][\A t \in Tasks :
            (ConsoleWrite(t) /\ t \notin writing') => ret'.what # "busy"]_vars
    /\ \A t \in Tasks : (t \in writing) ~> (t \notin writing \/ nextOp = MaxOps)

\* C22: read_new_special_frame returns Ok(frame) exactly when the Command
\* returned a (u32, u64) success whose read counter, the top byte of the u32,
\* is 0, and Already when that counter is not 0; it returns the failure code of
\* a failed Command, and BadRVal for every other shape of result.
C22_ReadNewSpecialFrame ==
    (api.fn = "read_new_special_frame" /\ api.stage = "out")
    => LET succeeded == api.cr.variant = "success_u32_u64"
           counter == api.cr.r0[1] \div 256
       IN /\ api.out.tag = "Ok" <=> (succeeded /\ counter = 0)
          /\ api.out.tag = "Ok"
                => api.out.val = [id |-> api.id, len |-> api.cr.r0[1] % 256,
                                  message |-> ToBeBytes(api.cr.r1)]
          /\ (succeeded /\ counter # 0) => api.out = Err("Already")
          /\ api.cr.variant = "failure" => api.out = Err(api.cr.code)
          /\ api.cr.variant = "other" => api.out = Err("BadRVal")
\* A frame that had been read 255 times before was refused as Already.
C22_Witness ==
    /\ api.fn = "read_new_special_frame" /\ api.stage = "out"
    /\ api.cr.variant = "success_u32_u64" /\ api.cr.r0[1] \div 256 = 255
    /\ api.out = Err("Already")

\* The logical time the upcall handler works with in an AlarmUpcall step.
HandlerNow == overflows' * Wrap + Head(upq)

\* C23 as stated: the upcall handler leaves the alarm armed for min(earliest
\* remaining deadline, overflow boundary of its logical now), with
\* overflow_next set exactly when the boundary is the target, and at a
\* distance of at least one tick.
C23_RearmedAhead ==
    [][AlarmUpcall =>
         /\ kalarm'.armed
         /\ kalarm'.reference = Low32(HandlerNow)
         /\ Target' = Low32(Min(Earliest', NextOverflow(HandlerNow)))
         /\ overflow_next' = (NextOverflow(HandlerNow) <= Earliest')
         /\ kalarm'.dt >= 1]_vars

\* C24: the upcall handler leaves in the queue exactly the entries that expire
\* after its logical now, and a schedule_wake that enqueues leaves only entries
\* that expire after its now, so a deadline that is already due is not left
\* queued while one that is still ahead is.
C24_ExpiredEntriesPopped ==
    [][/\ AlarmUpcall => queue' = SelectSeq(queue, LAMBDA e : e > HandlerNow)
       /\ \A i \in 0..Len(queue) : \A at \in Deadlines :
             Inserts(i, at) =>
                /\ \A k \in 1..Len(queue') : queue'[k] > Now
                /\ Len(queue') <= Len(queue) + 1
                /\ at > Now => \E k \in 1..Len(queue') : queue'[k] = at]_vars
\* After the wraparound the handler has counted an overflow, and the queue
\* holds one entry, which expires after the present and is the alarm's target.
C24_Witness ==
    /\ inited /\ wraps >= 1 /\ overflows >= 1 /\ ~overflow_next /\ upq = <<>>
    /\ Len(queue) = 1 /\ queue[1] > Now
    /\ kalarm.armed /\ Target = Low32(queue[1]) /\ kalarm.reference # ticks

\* The true logical time: the wraparounds that have happened and the counter.
TrueNow == wraps * Wrap + ticks

\* C25 as stated: an entry is woken, by the upcall handler or inside
\* schedule_wake, only when the true logical time has reached its expiration.
C25_NoEarlyWake ==
    [][/\ AlarmUpcall =>
             \A k \in 1..Len(queue) : queue[k] <= HandlerNow => queue[k] <= TrueNow
       /\ \A i \in 0..Len(queue) : \A at \in Deadlines :
             Inserts(i, at) =>
                /\ at <= Now => at <= TrueNow
                /\ \A k \in 1..Len(queue) :
                      (k # i /\ queue[k] <= Now) => queue[k] <= TrueNow]_vars

\* C26 as stated: a driver's busy flag is set only while one of its operations
\* is in flight, suspended in a task or outstanding in the kernel; so a
\* cancelled operation does not leave the flag set.
C26_BusyOnlyInFlight ==
    \A d \in Drivers :
        busy[d] => \/ \E t \in Tasks : pc[t] # "idle" /\ DriverOf(pc[t]) = d
                   \/ \E c \in inflight : DriverOf(c.op) = d

\* C27 as stated: a buffer whose allowed flag is set is the buffer the kernel
\* holds the grant of its driver and slot on.
C27_FlagMeansGrant ==
    \A t \in Tasks :
        (buf[t] # "none" /\ allowed[t]) => kgrant[BufferSlot(buf[t])] = t

\* C28: schedule_wake's body and the upcall handler never run inside one
\* another, and DRIVER.queue is never mutably borrowed twice at once.
C28_SectionsDoNotInterleave ==
    /\ ~(cs.sw # "idle" /\ cs.up # "idle")
    /\ cs.borrowed <= 1
\* schedule_wake holds the queue and has read the time while an alarm upcall
\* waits to be delivered.
C28_Witness ==
    /\ cs.sw = "arm" /\ cs.borrowed = 1 /\ upq # <<>> /\ cs.up = "idle"

\* C29: when get_mut_buffer returns, the buffer's flag is clear and the kernel
\* holds no grant on the buffer; if the flag was set the slot's grant has been
\* revoked.
C29_MutableAfterRevoke ==
    [][\A t \in Tasks :
         GetMutBuffer(t) =>
            /\ ~allowed'[t]
            /\ kgrant'[BufferSlot(buf[t])] # t
            /\ allowed[t] => kgrant'[BufferSlot(buf[t])] = NoTask]_vars
\* A task whose write completed holds its buffer with the flag clear and the
\* slot's grant revoked.
C29_Witness ==
    \E t \in Tasks :
        /\ ret = [task |-> t, what |-> "ok"] /\ pc[t] = "idle"
        /\ buf[t] = "ro" /\ ~allowed[t] /\ kgrant["console_ro"] = NoTask

\* C30 as stated: schedule_wake and the upcall handler never stay in their
\* `while next <= now` loop, whatever the queue holds.
C30_LoopsAlwaysExit == cs.sw # "spin" /\ cs.up # "spin"

\* C30: schedule_wake and the upcall handler leave their `while next <= now`
\* loop exactly when their now is below u64::MAX, whatever the queue holds, and
\* then with every expiration at or before now removed and next beyond now; at
\* now = u64::MAX the loop is never left.
C30_LoopsExitBelowMax ==
    /\ cs.sw = "spin" => cs.now = U64Max
    /\ cs.up = "spin" => cs.unow = U64Max
    /\ cs.sw = "arm" => /\ cs.now < U64Max /\ cs.next > cs.now
                        /\ \A k \in 1..Len(queue) : queue[k] > cs.now
    /\ cs.up = "arm" => /\ cs.unow < U64Max /\ cs.unext > cs.unow
                        /\ \A k \in 1..Len(queue) : queue[k] > cs.unow
\* schedule_wake has left the loop with the queue emptied of an entry that had
\* expired when it was enqueued, at a time the counter has moved from zero.
C30_Witness ==
    /\ cs.sw = "arm" /\ queue = <<>> /\ cs.next = U64Max /\ cs.now > 0

\* Bit 30 of an encoded word given as halves, the bit that marks the extended
\* form.
ReservedBitSet(h) == (h[1] \div 2^14) % 2 = 1

\* C31 as stated: a decoded word is an extended identifier exactly when its
\* reserved high bit is set; a decoded standard identifier is at most 0x7FF and
\* a decoded extended one at most 0x1FFFFFFF.
C31_DecodeByReservedBit ==
    (api.fn = "decode" /\ api.stage = "id") =>
        /\ api.id.kind = "Extended" <=> ReservedBitSet(api.word)
        /\ api.id.kind = "Standard" => api.id.v <= 2047
        /\ api.id.kind = "Extended" => api.id.v <= 2^29 - 1

\* The driver's state and the kernel's record of the process's system calls.
DriverState == <<busy, result, waker, pc, ownOp, nextOp, kgrant, inflight, woken>>

\* C32: transaction takes a list that is [Read], [Write] or [Write, Read] to
\* the operation of that shape and never answers NoSupport for it; for every
\* other list it returns NoSupport with the busy flag, the allowed buffers, the
\* commands issued and the rest of the driver state as they were.
C32_OnlyThreeShapes ==
    [][\A t \in Tasks : \A ops \in OperationLists :
         Transaction(t, ops) =>
            IF ops \in {<<"Read">>, <<"Write">>, <<"Write", "Read">>}
            THEN ret'.what # "nosupport"
            ELSE /\ ret' = [task |-> t, what |-> "nosupport"]
                 /\ DriverState' = DriverState]_vars
\* A list was refused with NoSupport while another task's operation holds the
\* driver.
C32_Witness ==
    \E t \in Tasks :
        /\ ret = [task |-> t, what |-> "nosupport"]
        /\ busy["i2c"] /\ inflight # {} /\ pc[t] = "idle"
        /\ \E u \in Tasks : u # t /\ pc[u] # "idle"

\* C33: sleep_for returns Ok only with the alarm callback of its own
\* subscription delivered; a wait ended by another upcall is followed by
\* another wait; an error is returned without any wait; and a call that waits
\* returns.
C33_SleepReturnsAfterAlarm ==
    /\ [](api.fn = "sleep" =>
            /\ api.res = "ok" => (api.called /\ api.waited)
            /\ api.res = "err" => ~api.waited
            /\ api.at = "returned" <=> api.res # "none")
    /\ [][(SleepYieldWait /\ Head(api.pending) = "other" /\ ~api.called)
            => (api'.at = "yield" /\ api'.res = "none")]_vars
    /\ (api.fn = "sleep" /\ api.at = "yield") ~> (api.at = "returned" /\ api.res = "ok")
\* The call has returned Ok after a wait that another upcall had ended.
C33_Witness ==
    /\ api.fn = "sleep" /\ api.at = "returned" /\ api.res = "ok"
    /\ api.called /\ api.spurious /\ ~api.subscribed

\* C34: write_str of a string that fits in the bytes left appends the whole
\* string at pos and advances pos by its length; of one that does not fit it
\* returns the error with the buffer and pos as they were. pos never exceeds
\* SIZE and is the total length of the strings written with Ok, which are the
\* first pos bytes of the buffer.
C34_WriteStrAllOrNothing ==
    /\ [](api.fn = "writer" =>
            /\ api.pos <= SIZE
            /\ api.pos = Len(api.log)
            /\ SubSeq(api.buf, 1, api.pos) = api.log)
    /\ [][\A str \in Strings :
            WriteStr(str) =>
               IF Len(str) <= SIZE - api.pos
               THEN /\ api'.res = "ok"
                    /\ api'.pos = api.pos + Len(str)
                    /\ SubSeq(api'.buf, api.pos + 1, api'.pos) = str
                    /\ SubSeq(api'.buf, 1, api.pos) = SubSeq(api.buf, 1, api.pos)
                    /\ SubSeq(api'.buf, api'.pos + 1, SIZE) = SubSeq(api.buf, api'.pos + 1, SIZE)
               ELSE /\ api'.res = "err"
                    /\ api'.buf = api.buf /\ api'.pos = api.pos]_vars
\* A string that would fit an empty buffer was refused by a buffer that holds
\* an earlier string and is not full.
C34_Witness ==
    /\ api.fn = "writer" /\ api.res = "err"
    /\ 0 < api.pos /\ api.pos < SIZE /\ Len(api.arg) <= SIZE
    /\ SubSeq(api.buf, 1, api.pos) = api.log

====
